---------------------------- MODULE Spec2Model ----------------------------
(***************************************************************************)
(* Model of the delivery-UAV path optimizer (DeliveryUAV::solveCase and    *)
(* DeliveryUAV::solve, driven by main).                                    *)
(*                                                                         *)
(* A C++ double is modelled as a record: a finite value (an integer; the   *)
(* inputs are drawn so that every distance and every quotient the program  *)
(* computes on a well-formed course is an integer, hence exact in binary   *)
(* floating point too), DBL_MAX, +infinity or NaN.                         *)
(***************************************************************************)
EXTENDS Integers, Sequences, FiniteSets, TLC

(***************************************************************************)
(* Bounds of the model and the sets the inputs are drawn from.             *)
(***************************************************************************)
\* largest number of waypoints of an input course
MaxN == 2

\* corners of a 6-8-10 triangle: all pairwise distances are 0, 6, 8 or 10
Points == {<<0, 0>>, <<6, 0>>, <<6, 8>>}

\* skip penalties of the waypoints of an input course
Penalties == {0, 4, 20}

\* texts of the optional command-line arguments, in tenths ("0.5" is 5)
SpeedTexts == {-10, 5, 10}

WaitTexts == {-10, 5}

\* values an uninitialized double may hold when it is read
Garbage == {0, 6}

\* values an out-of-range read of prev_waypoint may yield
GarbageIndex == {-1, 0}

(***************************************************************************)
(* double arithmetic                                                       *)
(***************************************************************************)
Fin(v) == [k |-> "fin", v |-> v]

DblMax == [k |-> "max", v |-> 0]

Infinity == [k |-> "inf", v |-> 0]

NaN == [k |-> "nan", v |-> 0]

\* a + b on doubles; DBL_MAX absorbs the small finite values of the model
FAdd(a, b) ==
    IF a.k = "nan" \/ b.k = "nan" THEN NaN
    ELSE IF a.k = "inf" \/ b.k = "inf" THEN Infinity
    ELSE IF a.k = "max" /\ b.k = "max" THEN Infinity
    ELSE IF a.k = "max" \/ b.k = "max" THEN DblMax
    ELSE Fin(a.v + b.v)

\* a < b on doubles; every comparison with NaN is false
FLess(a, b) ==
    IF a.k = "nan" \/ b.k = "nan" THEN FALSE
    ELSE IF a.k = "fin" THEN (IF b.k = "fin" THEN a.v < b.v ELSE TRUE)
    ELSE IF a.k = "max" THEN b.k = "inf"
    ELSE FALSE

Abs(x) == IF x < 0 THEN -x ELSE x

\* d / s for a finite d >= 0: x/0 is +infinity, 0/0 is NaN
FDiv(d, s) ==
    IF s = 0 THEN (IF d = 0 THEN NaN ELSE Infinity)
    ELSE IF s > 0 THEN Fin(d \div s)
    ELSE Fin(-(d \div (-s)))

\* std::hypot: the square root of dx^2 + dy^2, rounded to the nearest value
Hypot(dx, dy) ==
    LET s == dx * dx + dy * dy
        r == CHOOSE q \in 0..(Abs(dx) + Abs(dy)) : q * q <= s /\ s < (q + 1) * (q + 1)
    IN  IF s <= r * r + r THEN r ELSE r + 1

\* element i of a 0-indexed std::vector held as a sequence
At(vec, idx) == vec[idx + 1]

WayPoint(x, y, p) == [x |-> x, y |-> y, penalty |-> p]

(***************************************************************************)
(* input files: a sequence of whitespace-separated tokens                  *)
(***************************************************************************)
Tok(v) == [ok |-> TRUE, v |-> v]

\* a token that is not a number
BadTok == [ok |-> FALSE, v |-> 0]

RECURSIVE WaypointTokens(_)
WaypointTokens(ws) ==
    IF ws = <<>> THEN <<>>
    ELSE <<Tok(Head(ws)[1][1]), Tok(Head(ws)[1][2]), Tok(Head(ws)[2])>>
         \o WaypointTokens(Tail(ws))

\* the file of a course: N, start, terminal, then N lines x y penalty
CourseFile(s, t, ws) ==
    <<Tok(Len(ws)), Tok(s[1]), Tok(s[2]), Tok(t[1]), Tok(t[2])>> \o WaypointTokens(ws)

File(toks) == [exists |-> TRUE, toks |-> toks]

NoFile == [exists |-> FALSE, toks |-> <<>>]

FilesOfN(k) ==
    {CourseFile(s, t, ws) : s \in Points, t \in Points,
                            ws \in [1..k -> Points \X Penalties]}

\* the input holds the file of a course of at most MaxN waypoints
WellFormed(in) ==
    \E k \in 0..MaxN : \E s \in Points, t \in Points :
        \E ws \in [1..k -> Points \X Penalties] : in = File(CourseFile(s, t, ws))

\* files whose waypoint count is negative
NegCountFiles == {<<Tok(-1)>> \o Tail(f) : f \in FilesOfN(0) \cup FilesOfN(1)}

\* the input holds a well-formed file cut short before token c, or with
\* token c replaced by one that is not a number (the rest is never read)
Malformed(in) ==
    \E k \in 0..MaxN : \E s \in Points, t \in Points :
        \E ws \in [1..k -> Points \X Penalties] :
            LET f == CourseFile(s, t, ws)
            IN  \E c \in 1..Len(f) : \E rest \in {<<>>, <<BadTok>>} :
                    in = File(SubSeq(f, 1, c - 1) \o rest)

\* the optional arguments after the two paths: none, a speed, or the speed
\* "1" and a wait
Argvs ==
    {<<>>} \cup {<<s>> : s \in SpeedTexts} \cup {<<10, w>> : w \in WaitTexts}

VARIABLES
    argv,            \* optional command-line arguments (texts, in tenths)
    paths,           \* argv[1], argv[2]: the input and output paths given
    input,           \* the input file solveCase opens
    opened,          \* the file names main passes to solveCase
    again,           \* solve was entered a second time
    first,           \* what the first call of solve returned, once it is repeated
    pc,              \* position of the program
    uav_speed_,      \* DeliveryUAV::uav_speed_
    wait_time_,      \* DeliveryUAV::wait_time_
    stream,          \* input_file: next token and failbit
    n,               \* solveCase: n
    term,            \* solveCase: term_x, term_y
    waypoints,       \* solveCase: waypoints
    prefix,          \* solveCase: prefix
    dp,              \* solve: dp
    prev_waypoint,   \* solve: prev_waypoint
    i,               \* solve: outer loop index
    path,            \* solve: path
    current,         \* solve: current
    result,          \* solveCase: result
    output,          \* what was written to the output file
    status           \* exit status of the program, -1 while it runs

vars == <<argv, paths, input, opened, again, first, pc, uav_speed_, wait_time_, stream, n, term, waypoints, prefix,
          dp, prev_waypoint, i, path, current, result, output, status>>

io == <<argv, paths, input>>

caller == <<again, first>>

uav == <<uav_speed_, wait_time_>>

parsed == <<stream, n, term, waypoints, prefix>>

solving == <<dp, prev_waypoint, i, path, current>>

InitRest ==
    /\ pc = "main"
    /\ opened = <<>>
    /\ again = FALSE
    /\ first = [result |-> Fin(0), path |-> <<>>]
    /\ uav_speed_ = 0
    /\ wait_time_ = 0
    /\ stream = [pos |-> 1, fail |-> FALSE]
    /\ n = 0
    /\ term = <<0, 0>>
    /\ waypoints = <<>>
    /\ prefix = <<>>
    /\ dp = <<>>
    /\ prev_waypoint = <<>>
    /\ i = 0
    /\ path = <<>>
    /\ current = 0
    /\ result = Fin(0)
    /\ output = <<>>
    /\ status = -1

\* the file names in the call of solveCase
HardCodedPaths == <<"input.txt", "output.txt">>

\* the paths a command line may give
CliPaths == {HardCodedPaths, <<"course.txt", "result.txt">>}

\* any arguments; a well-formed course file, one with a negative count, or none
Init ==
    /\ paths = HardCodedPaths
    /\ \/ WellFormed(input)
       \/ input \in {File(f) : f \in NegCountFiles} \cup {NoFile}
    /\ argv \in Argvs
    /\ InitRest

\* default arguments, or the speed "0.5"; any file, well-formed or not
InitIO ==
    /\ paths = HardCodedPaths
    /\ argv \in {<<>>, <<5>>}
    /\ \/ WellFormed(input)
       \/ Malformed(input)
       \/ input \in {File(f) : f \in NegCountFiles} \cup {NoFile}
    /\ InitRest

\* any pair of paths; default arguments, or the speed "0.5"; a well-formed file
InitCli ==
    /\ paths \in CliPaths
    /\ argv \in {<<>>, <<5>>}
    /\ WellFormed(input)
    /\ InitRest

\* as Init, for the runs in which solve is entered twice
InitTwice ==
    /\ paths = HardCodedPaths
    /\ argv \in {<<>>, <<5>>}
    /\ WellFormed(input)
    /\ InitRest

(***************************************************************************)
(* main                                                                    *)
(***************************************************************************)
\* Config: uav_Speed
DefaultSpeed == 2

\* Config: wait_Time
DefaultWait == 10

\* std::stoi on the text of a number: the integer part, truncated towards zero
Stoi(text) == IF text >= 0 THEN text \div 10 ELSE -((-text) \div 10)

\* parse_arguments: the optional overrides, else the defaults
ParseSpeed(args) == IF Len(args) >= 1 THEN Stoi(args[1]) ELSE DefaultSpeed

ParseWait(args) == IF Len(args) >= 2 THEN Stoi(args[2]) ELSE DefaultWait

\* main: parse the arguments, construct the UAV (the constructor stores both
\* parameters as given, without validation) and call solveCase
Main ==
    /\ pc = "main"
    /\ uav_speed_' = ParseSpeed(argv)
    /\ wait_time_' = ParseWait(argv)
    /\ opened' = HardCodedPaths
    /\ pc' = "open"
    /\ UNCHANGED <<io, caller, parsed, solving, result, output, status>>

(***************************************************************************)
(* DeliveryUAV::solveCase                                                  *)
(***************************************************************************)
\* open the input file (the output file is taken to be creatable)
OpenFiles ==
    /\ pc = "open"
    /\ IF input.exists
         THEN pc' = "count" /\ status' = status
         ELSE pc' = "done" /\ status' = 1
    /\ UNCHANGED <<io, caller, uav, opened, parsed, solving, result, output>>

\* input_file >> v: a failed stream leaves v as it was; at the end of the
\* file the stream fails and v is left; a token that is no number sets v to 0
Extract(toks, st, old) ==
    IF st.fail THEN [val |-> old, st |-> st]
    ELSE IF st.pos > Len(toks) THEN [val |-> old, st |-> [st EXCEPT !.fail = TRUE]]
    ELSE IF ~toks[st.pos].ok THEN [val |-> 0, st |-> [st EXCEPT !.fail = TRUE]]
    ELSE [val |-> toks[st.pos].v, st |-> [st EXCEPT !.pos = st.pos + 1]]

\* mutant of CountInvalid: the bound is off by one
CountInvalidOffByOne(c) == c < -1

\* whether one of the next k extractions fails (and leaves its variable as it
\* was, uninitialized)
SomeFail(toks, st, k) ==
    \/ st.fail
    \/ \E j \in 0..(k - 1) : st.pos + j > Len(toks) \/ ~toks[st.pos + j].ok

\* the values k uninitialized doubles may hold, when any of them is read
Uninitialized(toks, st, k) ==
    IF SomeFail(toks, st, k) THEN [1..k -> Garbage] ELSE {[j \in 1..k |-> 0]}

\* the check on the waypoint count
CountInvalid(c) == c < 0

\* int n = 0; input_file >> n; if (n < 0) return EXIT_FAILURE
ReadCount ==
    /\ pc = "count"
    /\ LET r == Extract(input.toks, stream, 0)
       IN  /\ n' = r.val
           /\ stream' = r.st
           /\ IF CountInvalid(r.val)
                THEN pc' = "done" /\ status' = 1
                ELSE pc' = "ends" /\ status' = status
    /\ UNCHANGED <<io, caller, uav, opened, term, waypoints, prefix, solving, result, output>>

\* double start_x, start_y, term_x, term_y (uninitialized); four extractions;
\* waypoints gets the start point
ReadEndpoints ==
    /\ pc = "ends"
    /\ \E g \in Uninitialized(input.toks, stream, 4) :
         LET r1 == Extract(input.toks, stream, g[1])
             r2 == Extract(input.toks, r1.st, g[2])
             r3 == Extract(input.toks, r2.st, g[3])
             r4 == Extract(input.toks, r3.st, g[4])
         IN  /\ stream' = r4.st
             /\ waypoints' = <<WayPoint(r1.val, r2.val, 0)>>
             /\ term' = <<r3.val, r4.val>>
    /\ pc' = "load"
    /\ UNCHANGED <<io, caller, uav, opened, n, prefix, solving, result, output, status>>

\* one iteration of the loading loop: double x, y, p (uninitialized); three
\* extractions; waypoints.emplace_back(x, y, p)
ReadWaypoint ==
    /\ pc = "load"
    /\ Len(waypoints) - 1 < n
    /\ \E g \in Uninitialized(input.toks, stream, 3) :
         LET r1 == Extract(input.toks, stream, g[1])
             r2 == Extract(input.toks, r1.st, g[2])
             r3 == Extract(input.toks, r2.st, g[3])
         IN  /\ stream' = r3.st
             /\ waypoints' = Append(waypoints, WayPoint(r1.val, r2.val, r3.val))
    /\ UNCHANGED <<io, caller, uav, opened, pc, n, term, prefix, solving, result, output, status>>

\* mutant of PrefixUpTo: entry k adds the penalty of waypoint k - 1
RECURSIVE PrefixShifted(_, _)
PrefixShifted(wps, k) ==
    IF k = 0 THEN <<0>>
    ELSE LET before == PrefixShifted(wps, k - 1)
         IN  Append(before, At(before, k - 1) + At(wps, k - 1).penalty)

\* prefix[0] = 0; prefix[k] = prefix[k-1] + waypoints[k].penalty for k in 1..cnt
RECURSIVE PrefixUpTo(_, _)
PrefixUpTo(wps, k) ==
    IF k = 0 THEN <<0>>
    ELSE LET before == PrefixUpTo(wps, k - 1)
         IN  Append(before, At(before, k - 1) + At(wps, k).penalty)

\* the penalty precomputation: prefix has cnt + 2 entries, the last a copy of
\* the one before it
PenaltyPrefix(wps, cnt) ==
    LET upto == PrefixUpTo(wps, cnt)
    IN  Append(upto, At(upto, cnt))

\* the loading loop is over: push the terminal, build the prefix sums, call solve
Precompute ==
    /\ pc = "load"
    /\ ~(Len(waypoints) - 1 < n)
    /\ LET all == Append(waypoints, WayPoint(term[1], term[2], 0))
       IN  /\ waypoints' = all
           /\ prefix' = PenaltyPrefix(all, n)
    /\ pc' = "solve"
    /\ UNCHANGED <<io, caller, uav, opened, stream, n, term, solving, result, output, status>>

(***************************************************************************)
(* DeliveryUAV::solve                                                      *)
(***************************************************************************)
\* total_points = waypoints.size() - 1
TotalPoints(wps) == Len(wps) - 1

\* std::hypot(waypoints[a].x - waypoints[b].x, waypoints[a].y - waypoints[b].y)
Distance(wps, a, b) ==
    Hypot(At(wps, a).x - At(wps, b).x, At(wps, a).y - At(wps, b).y)

\* mutant of SumPen: the range of skipped waypoints includes a itself
SumPenIncludesTarget(pre, a, b) == At(pre, a) - At(pre, b)

\* sum_pen = prefix[a - 1] - prefix[b]
SumPen(pre, a, b) == At(pre, a - 1) - At(pre, b)

\* mutant of Candidate: the penalties of the skipped waypoints are left out
CandidateNoPenalty(d, wps, pre, speed, a, b) ==
    FAdd(At(d, b), FDiv(Distance(wps, a, b), speed))

\* mutant of Candidate: the distance is multiplied by the speed
CandidateTimesSpeed(d, wps, pre, speed, a, b) ==
    FAdd(FAdd(At(d, b), Fin(Distance(wps, a, b) * speed)), Fin(At(pre, a - 1) - At(pre, b)))

\* time_candidate = dp[b] + (distance / uav_speed_) + sum_pen
Candidate(d, wps, pre, speed, a, b) ==
    FAdd(FAdd(At(d, b), FDiv(Distance(wps, a, b), speed)), Fin(SumPen(pre, a, b)))

\* mutant of Improves: a tie replaces the minimum kept so far
ImprovesOrTies(cand, best) == FLess(cand, best) \/ cand = best

\* mutant of Improves: the candidate examined last is kept
ImprovesAlways(cand, best) == TRUE

\* mutant of Improves: the comparison is turned around
ImprovesReversed(cand, best) == FLess(best, cand)

\* if (time_candidate < min_time)
Improves(cand, best) == FLess(cand, best)

\* the inner loop over b = from..a-1, carrying min_time and bestPrev
RECURSIVE InnerScan(_, _, _, _, _, _, _)
InnerScan(d, wps, pre, speed, a, from, acc) ==
    IF from >= a THEN acc
    ELSE LET cand == Candidate(d, wps, pre, speed, a, from)
             next == IF Improves(cand, acc.min_time)
                       THEN [min_time |-> cand, bestPrev |-> from]
                       ELSE acc
         IN  InnerScan(d, wps, pre, speed, a, from + 1, next)

\* mutant of DpRow: the wait at the point reached is not added
DpRowNoWait(d, wps, pre, speed, wait, a) ==
    LET best == InnerScan(d, wps, pre, speed, a, 0,
                          [min_time |-> DblMax, bestPrev |-> -1])
    IN  [time |-> best.min_time, prev |-> best.bestPrev]

\* mutant of DpRow: the wait is subtracted instead of added
DpRowMinusWait(d, wps, pre, speed, wait, a) ==
    LET best == InnerScan(d, wps, pre, speed, a, 0,
                          [min_time |-> DblMax, bestPrev |-> -1])
    IN  [time |-> FAdd(best.min_time, Fin(-wait)), prev |-> best.bestPrev]

\* one iteration of the outer loop: the values written to dp[a] and
\* prev_waypoint[a]
DpRow(d, wps, pre, speed, wait, a) ==
    LET best == InnerScan(d, wps, pre, speed, a, 0,
                          [min_time |-> DblMax, bestPrev |-> -1])
    IN  [time |-> FAdd(best.min_time, Fin(wait)), prev |-> best.bestPrev]

\* mutant of InitialDp: the base case dp[0] = 0 is missing
InitialDpNoBase(wps) == [k \in 1..Len(wps) |-> Infinity]

\* dp(total_points + 1, infinity); dp[0] = 0.0
InitialDp(wps) == [k \in 1..Len(wps) |-> IF k = 1 THEN Fin(0) ELSE Infinity]

\* entry of solve: dp and prev_waypoint are created, the outer loop starts at 1
SolveInit ==
    /\ pc = "solve"
    /\ dp' = InitialDp(waypoints)
    /\ prev_waypoint' = [k \in 1..Len(waypoints) |-> -1]
    /\ i' = 1
    /\ pc' = "dp"
    /\ UNCHANGED <<io, caller, uav, opened, parsed, path, current, result, output, status>>

\* one iteration of the outer loop
DpStep ==
    /\ pc = "dp"
    /\ i <= TotalPoints(waypoints)
    /\ LET row == DpRow(dp, waypoints, prefix, uav_speed_, wait_time_, i)
       IN  /\ dp' = [dp EXCEPT ![i + 1] = row.time]
           /\ prev_waypoint' = [prev_waypoint EXCEPT ![i + 1] = row.prev]
    /\ i' = i + 1
    /\ UNCHANGED <<io, caller, uav, opened, parsed, pc, path, current, result, output, status>>

\* mutant of BacktraceInit: path.clear() is left out
BacktraceInitNoClear ==
    /\ pc = "dp"
    /\ i > TotalPoints(waypoints)
    /\ path' = path
    /\ current' = TotalPoints(waypoints)
    /\ pc' = "back"
    /\ UNCHANGED <<io, caller, uav, opened, parsed, dp, prev_waypoint, i, result, output, status>>

\* the outer loop is over: path.clear(); current = total_points
BacktraceInit ==
    /\ pc = "dp"
    /\ i > TotalPoints(waypoints)
    /\ path' = <<>>
    /\ current' = TotalPoints(waypoints)
    /\ pc' = "back"
    /\ UNCHANGED <<io, caller, uav, opened, parsed, dp, prev_waypoint, i, result, output, status>>

\* one iteration of while (current != 0): path.push_back(current);
\* current = prev_waypoint[current].  Reading prev_waypoint outside its range
\* is undefined: the program crashes, or the read yields some value.
BacktraceStep ==
    /\ pc = "back"
    /\ current # 0
    /\ path' = Append(path, current)
    /\ IF current \in 0..TotalPoints(waypoints)
         THEN current' = At(prev_waypoint, current) /\ pc' = pc
         ELSE \/ pc' = "crashed" /\ current' = current
              \/ /\ pc' = pc
                 /\ current' \in GarbageIndex
                 /\ current' = 0 \/ Len(path) <= Len(waypoints)
    /\ UNCHANGED <<io, caller, uav, opened, parsed, dp, prev_waypoint, i, result, output, status>>

\* mutant of Reverse: the path is left in backtrace order
ReverseForgotten(seq) == seq

RECURSIVE Reverse(_)
Reverse(seq) == IF seq = <<>> THEN <<>> ELSE Append(Reverse(Tail(seq)), Head(seq))

\* the loop is over: path.push_back(0); std::reverse; return dp.back()
SolveReturn ==
    /\ pc = "back"
    /\ current = 0
    /\ path' = Reverse(Append(path, 0))
    /\ result' = dp[Len(dp)]
    /\ pc' = "write"
    /\ UNCHANGED <<io, caller, uav, opened, parsed, dp, prev_waypoint, i, current, output, status>>

\* std::fixed << std::setprecision(3): the value in thousandths, or its name
Fixed3(x) == IF x.k = "fin" THEN [text |-> "fin", milli |-> 1000 * x.v]
             ELSE [text |-> x.k, milli |-> 0]

\* solveCase, after solve: write the time and every index of the path
WriteOutput ==
    /\ pc = "write"
    /\ output' = <<[time |-> Fixed3(result), indices |-> path]>>
    /\ status' = 0
    /\ pc' = "done"
    /\ UNCHANGED <<io, caller, uav, opened, parsed, solving, result>>

Next ==
    \/ Main
    \/ OpenFiles
    \/ ReadCount
    \/ ReadEndpoints
    \/ ReadWaypoint
    \/ Precompute
    \/ SolveInit
    \/ DpStep
    \/ BacktraceInit
    \/ BacktraceStep
    \/ SolveReturn
    \/ WriteOutput

Spec == Init /\ [][Next]_vars

SpecIO == InitIO /\ [][Next]_vars

SpecCli == InitCli /\ [][Next]_vars

\* what the path vector of the caller may hold when solve is entered again
PreviousContents == {path, <<0, 1>>}

\* solve is entered a second time on the same object, with the same waypoints
\* and prefix and with a path vector that is not empty
SolveAgain ==
    /\ pc = "write"
    /\ ~again
    /\ again' = TRUE
    /\ first' = [result |-> result, path |-> path]
    /\ path' \in PreviousContents
    /\ pc' = "solve"
    /\ UNCHANGED <<io, uav, opened, parsed, dp, prev_waypoint, i, current, result, output, status>>

NextTwice == Next \/ SolveAgain

SpecTwice == InitTwice /\ [][NextTwice]_vars

(***************************************************************************)
(* solve as a function of the course and the parameters: the dp table the  *)
(* outer loop builds, and the value solve returns                          *)
(***************************************************************************)
RECURSIVE DpTable(_, _, _, _, _)
DpTable(wps, pre, speed, wait, a) ==
    IF a = 0 THEN InitialDp(wps)
    ELSE LET d == DpTable(wps, pre, speed, wait, a - 1)
         IN  [d EXCEPT ![a + 1] = DpRow(d, wps, pre, speed, wait, a).time]

SolveValue(wps, pre, speed, wait) ==
    At(DpTable(wps, pre, speed, wait, TotalPoints(wps)), TotalPoints(wps))

(***************************************************************************)
(* Vocabulary of the properties                                            *)
(***************************************************************************)
\* the UAV parameters satisfy the contract of solve
ValidParams == uav_speed_ > 0 /\ wait_time_ >= 0

\* the course was read completely from a well-formed file
ValidCourse ==
    /\ ~stream.fail
    /\ n >= 0
    /\ Len(waypoints) = n + 2
    /\ \A k \in 1..n : At(waypoints, k).penalty >= 0

ValidRun == pc # "main" /\ ValidParams /\ ValidCourse

\* solve has just returned: result and path are final (WriteOutput only
\* copies them)
Solved == pc = "write"

\* the outer loop is running or has just ended: dp and prev_waypoint are
\* final in the entries written so far and do not change after the loop
InDpPass == pc = "dp"

\* the number of dp entries the outer loop has written so far
Computed == IF i = 0 THEN 0 ELSE i - 1

\* travel time along a sequence of point indices
RECURSIVE TravelAlong(_)
TravelAlong(p) ==
    IF Len(p) < 2 THEN 0
    ELSE FDiv(Distance(waypoints, p[2], p[1]), uav_speed_).v + TravelAlong(Tail(p))

\* penalties of the waypoints 1..k that are not in the set V
RECURSIVE SkippedPenalty(_, _)
SkippedPenalty(V, k) ==
    IF k = 0 THEN 0
    ELSE (IF k \in V THEN 0 ELSE At(waypoints, k).penalty) + SkippedPenalty(V, k - 1)

Range(p) == {p[k] : k \in 1..Len(p)}

\* cost of visiting exactly the points of p, in order
PathCost(p) ==
    TravelAlong(p) + wait_time_ * (Len(p) - 1) + SkippedPenalty(Range(p), n)

\* the points of V among from..n+1, in increasing order
RECURSIVE Ordered(_, _)
Ordered(V, from) ==
    IF from > n + 1 THEN <<>>
    ELSE (IF from \in V THEN <<from>> ELSE <<>>) \o Ordered(V, from + 1)

\* cost of visiting start, the waypoints of S and the terminal
SubsetCost(S) == PathCost(Ordered(S \cup {0, n + 1}, 0))

AllSubsetCosts == {SubsetCost(S) : S \in SUBSET (1..n)}

(***************************************************************************)
(* C1: on a valid course with valid parameters the time solve returns is   *)
(* the least cost over all subsets of waypoints: it is the cost of some    *)
(* subset and no subset costs less.                                        *)
(***************************************************************************)
C1_MinOverSubsets ==
    (Solved /\ ValidRun) =>
        /\ result.k = "fin"
        /\ result.v \in AllSubsetCosts
        /\ \A c \in AllSubsetCosts : result.v <= c

\* two waypoints, one visited and one skipped
C1_Witness ==
    Solved /\ ValidRun /\ n = 2 /\ Len(path) = 3

(***************************************************************************)
(* C2: the path solve produces starts at 0, ends at N+1, is strictly       *)
(* increasing and has its interior in 1..N.                                *)
(***************************************************************************)
C2_PathShape ==
    (Solved /\ ValidRun) =>
        /\ Len(path) >= 2
        /\ path[1] = 0
        /\ path[Len(path)] = n + 1
        /\ \A k \in 1..(Len(path) - 1) : path[k] < path[k + 1]
        /\ \A k \in 2..(Len(path) - 1) : path[k] \in 1..n

\* a path with both waypoints of a course of two
C2_Witness ==
    Solved /\ ValidRun /\ n = 2 /\ path = <<0, 1, 2, 3>>

(***************************************************************************)
(* C3: the cost of the returned path (travel between consecutive points,   *)
(* wait at every point but the start, penalties of the absent waypoints)   *)
(* is the returned time.                                                   *)
(***************************************************************************)
C3_PathRealisesTime ==
    (Solved /\ ValidRun) => result = Fin(PathCost(path))

\* waypoint 1 visited, waypoint 2 skipped at a positive penalty
C3_Witness ==
    /\ Solved /\ ValidRun /\ n = 2 /\ path = <<0, 1, 3>>
    /\ At(waypoints, 2).penalty > 0

(***************************************************************************)
(* C4: invalid parameters (speed <= 0 or wait_time < 0) are rejected       *)
(* before the DP pass: no dp entry is computed and no result is written.   *)
(***************************************************************************)
C4_InvalidParamsRejected ==
    (pc # "main" /\ ~ValidParams) => (Computed = 0 /\ output = <<>>)

(***************************************************************************)
(* C5: a negative waypoint count ends solveCase with a non-zero status,    *)
(* without the DP pass and without writing a result.                       *)
(***************************************************************************)
C5_NegativeCountRejected ==
    n < 0 =>
        /\ pc = "done"
        /\ status = 1
        /\ waypoints = <<>>
        /\ dp = <<>>
        /\ output = <<>>

C5_Witness ==
    pc = "done" /\ n < 0

(***************************************************************************)
(* C6: when an extraction from the input fails (a field is no number, or   *)
(* the file ends early) solveCase fails before the DP pass and writes no   *)
(* result.                                                                 *)
(***************************************************************************)
C6_MalformedRejected ==
    stream.fail => (Computed = 0 /\ output = <<>> /\ status # 0)

(***************************************************************************)
(* C7: with no waypoints, solve returns distance(start, terminal)/speed +  *)
(* wait_time and the path 0, 1.                                            *)
(***************************************************************************)
C7_NoWaypoints ==
    (Solved /\ ValidRun /\ n = 0) =>
        /\ result = FAdd(FDiv(Distance(waypoints, 1, 0), uav_speed_), Fin(wait_time_))
        /\ path = <<0, 1>>

\* start and terminal apart, a positive wait
C7_Witness ==
    /\ Solved /\ ValidRun /\ n = 0
    /\ Distance(waypoints, 1, 0) > 0 /\ wait_time_ > 0

(***************************************************************************)
(* C8: ties go to the first minimum: prev_waypoint[a] is the smallest b    *)
(* whose candidate is the least candidate of a.                            *)
(***************************************************************************)
CandidateNow(a, b) == Candidate(dp, waypoints, prefix, uav_speed_, a, b)

C8_FirstMinimumWins ==
    (InDpPass /\ ValidRun) =>
        \A a \in 1..Computed :
            LET best == At(prev_waypoint, a)
            IN  /\ best \in 0..(a - 1)
                /\ \A b \in 0..(a - 1) :
                     /\ ~FLess(CandidateNow(a, b), CandidateNow(a, best))
                     /\ b < best => FLess(CandidateNow(a, best), CandidateNow(a, b))

\* a later predecessor ties with the one that was kept
C8_Witness ==
    /\ InDpPass /\ ValidRun
    /\ \E a \in 1..Computed : \E b \in 0..(a - 1) :
         /\ b > At(prev_waypoint, a)
         /\ CandidateNow(a, b) = CandidateNow(a, At(prev_waypoint, a))

(***************************************************************************)
(* C9: on valid input every dp entry and the returned time are finite and  *)
(* not negative, also when points coincide.                                *)
(***************************************************************************)
FiniteNonNeg(x) == x.k = "fin" /\ x.v >= 0

C9_FiniteNonNegative ==
    /\ (InDpPass /\ ValidRun) => \A a \in 0..Computed : FiniteNonNeg(At(dp, a))
    /\ (Solved /\ ValidRun) => FiniteNonNeg(result)

\* a waypoint on the start and a waypoint on the terminal
C9_Witness ==
    /\ Solved /\ ValidRun /\ n = 2
    /\ Distance(waypoints, 1, 0) = 0
    /\ Distance(waypoints, 3, 2) = 0

(***************************************************************************)
(* C10: for a fixed course the returned time does not decrease when the    *)
(* wait time grows and does not increase when the speed grows.             *)
(***************************************************************************)
CompareWaits == {0, 1, 10, 25}

CompareSpeeds == {1, 2}

LessEq(x, y) == x.k = "fin" /\ y.k = "fin" /\ x.v <= y.v

C10_Monotone ==
    (Solved /\ ValidRun) =>
        /\ \A w \in CompareWaits :
             LET other == SolveValue(waypoints, prefix, uav_speed_, w)
             IN  /\ w >= wait_time_ => LessEq(result, other)
                 /\ w <= wait_time_ => LessEq(other, result)
        /\ \A s \in CompareSpeeds :
             LET other == SolveValue(waypoints, prefix, s, wait_time_)
             IN  /\ s >= uav_speed_ => LessEq(other, result)
                 /\ s <= uav_speed_ => LessEq(result, other)

\* a course whose time does change with the wait and with the speed
C10_Witness ==
    /\ Solved /\ ValidRun /\ n = 2
    /\ \E w \in CompareWaits : SolveValue(waypoints, prefix, uav_speed_, w) # result
    /\ \E s \in CompareSpeeds : SolveValue(waypoints, prefix, s, wait_time_) # result

(***************************************************************************)
(* C12: a waypoint with penalty 0 whose visit costs something (the wait is *)
(* positive, or it lies strictly off the segment between every earlier and *)
(* every later point) is not in the returned path.                         *)
(***************************************************************************)
\* the extra distance of going from a to b through k
Detour(a, k, b) ==
    Distance(waypoints, k, a) + Distance(waypoints, b, k) - Distance(waypoints, b, a)

OffEverySegment(k) ==
    \A a \in 0..(k - 1) : \A b \in (k + 1)..(n + 1) : Detour(a, k, b) > 0

FreeToSkipCostlyToVisit(k) ==
    /\ At(waypoints, k).penalty = 0
    /\ wait_time_ > 0 \/ OffEverySegment(k)

C12_ZeroPenaltySkipped ==
    (Solved /\ ValidRun) =>
        \A k \in 1..n : FreeToSkipCostlyToVisit(k) => k \notin Range(path)

\* no wait, a free waypoint off every segment, and the other waypoint visited
C12_Witness ==
    /\ Solved /\ ValidRun /\ n = 2 /\ wait_time_ = 0
    /\ Len(path) = 3
    /\ \E k \in 1..n : FreeToSkipCostlyToVisit(k)

(***************************************************************************)
(* C13: when the penalty of every waypoint k exceeds the wait plus the     *)
(* time of the detour through k between any earlier a and later b, the     *)
(* returned path holds every point 0..N+1.                                 *)
(***************************************************************************)
\* penalty > wait + detour / speed, cleared of the division (speed > 0)
PenaltyBeatsVisit(k) ==
    \A a \in 0..(k - 1) : \A b \in (k + 1)..(n + 1) :
        At(waypoints, k).penalty * uav_speed_ > wait_time_ * uav_speed_ + Detour(a, k, b)

C13_AllVisited ==
    (Solved /\ ValidRun /\ \A k \in 1..n : PenaltyBeatsVisit(k)) =>
        path = [k \in 1..(n + 2) |-> k - 1]

\* two waypoints, one of them a real detour, a positive wait
C13_Witness ==
    /\ Solved /\ ValidRun /\ n = 2 /\ wait_time_ > 0
    /\ \A k \in 1..n : PenaltyBeatsVisit(k)
    /\ \E k \in 1..n : Detour(k - 1, k, k + 1) > 0

(***************************************************************************)
(* C17: for valid input every prev_waypoint[a] written by the DP pass,     *)
(* 1 <= a <= N+1, lies in 0..a-1 (never -1); the backtrace visits strictly *)
(* decreasing indices, never reads outside prev_waypoint, and has pushed   *)
(* at most N+1 indices when it reaches 0.                                  *)
(***************************************************************************)
\* the rows of prev_waypoint the outer loop has written
Written == IF pc = "solve" THEN 0 ELSE Computed

StrictlyDecreasing(p) == \A k \in 1..(Len(p) - 1) : p[k] > p[k + 1]

C17_BacktraceSafe ==
    (ValidRun /\ pc \in {"dp", "back", "crashed"}) =>
        /\ pc # "crashed"
        /\ \A a \in 1..Written : At(prev_waypoint, a) \in 0..(a - 1)
        /\ pc = "back" =>
              /\ current \in 0..TotalPoints(waypoints)
              /\ StrictlyDecreasing(Append(path, current))
              /\ Len(path) <= n + 1

\* the longest backtrace: two waypoints, both visited, the walk has reached 0
C17_Witness ==
    /\ ValidRun /\ pc = "back" /\ n = 2
    /\ current = 0 /\ Len(path) = 3

(***************************************************************************)
(* C18: prefix[0] = 0, prefix[k] is the sum of the penalties of waypoints  *)
(* 1..k, prefix[N+1] = prefix[N]; and prefix[a-1] - prefix[b] is the sum   *)
(* of the penalties of the waypoints strictly between b and a (0 when      *)
(* a = b + 1).                                                             *)
(***************************************************************************)
\* the sum of the penalties of the waypoints k with lo < k < hi
RECURSIVE PenaltiesBetween(_, _)
PenaltiesBetween(lo, hi) ==
    IF hi - lo <= 1 THEN 0
    ELSE At(waypoints, hi - 1).penalty + PenaltiesBetween(lo, hi - 1)

C18_PrefixSums ==
    (prefix # <<>>) =>
        /\ Len(prefix) = n + 2
        /\ At(prefix, 0) = 0
        /\ \A k \in 1..n : At(prefix, k) = PenaltiesBetween(0, k + 1)
        /\ At(prefix, n + 1) = At(prefix, n)
        /\ \A a \in 1..(n + 1) : \A b \in 0..(a - 1) :
              /\ SumPen(prefix, a, b) = PenaltiesBetween(b, a)
              /\ (a = b + 1) => SumPen(prefix, a, b) = 0

\* two waypoints with different positive penalties
C18_Witness ==
    /\ prefix # <<>> /\ n = 2
    /\ At(waypoints, 1).penalty = 4 /\ At(waypoints, 2).penalty = 20
    /\ SumPen(prefix, 3, 0) = 24

(***************************************************************************)
(* C14: the index list solveCase writes holds only waypoint indices 1..N;  *)
(* the start (0) and the end point (N+1) are not in it.                    *)
(***************************************************************************)
C14_OnlyWaypointIndices ==
    (ValidRun /\ output # <<>>) =>
        \A idx \in Range(output[1].indices) : idx \in 1..n

(***************************************************************************)
(* C16: the value of dp[a] is the same for every order in which the        *)
(* predecessors 0..a-1 are examined; dp[a] is written when dp[0..a-1] are  *)
(* written and dp[a..] are not, and a written entry never changes.         *)
(***************************************************************************)
\* the inner scan of row a with the predecessors examined in the given order
RECURSIVE ScanInOrder(_, _, _)
ScanInOrder(order, a, acc) ==
    IF order = <<>> THEN acc
    ELSE LET cand == Candidate(dp, waypoints, prefix, uav_speed_, a, Head(order))
             next == IF Improves(cand, acc.min_time)
                       THEN [min_time |-> cand, bestPrev |-> Head(order)]
                       ELSE acc
         IN  ScanInOrder(Tail(order), a, next)

\* every order of the predecessors 0..a-1
Orders(a) ==
    {o \in [1..a -> 0..(a - 1)] : \A x, y \in 1..a : x # y => o[x] # o[y]}

\* the row written last is what every order of its scan gives; the rows not
\* yet written still hold the initial infinity
OrderIndependent ==
    InDpPass =>
        /\ i >= 2 =>
              \A o \in Orders(i - 1) :
                  FAdd(ScanInOrder(o, i - 1, [min_time |-> DblMax, bestPrev |-> -1]).min_time,
                       Fin(wait_time_)) = At(dp, i - 1)
        /\ \A a \in i..TotalPoints(waypoints) : At(dp, a) = Infinity

\* a step changes no written entry, and writes at most the entry i
WrittenOnce ==
    (pc \in {"dp", "back", "write", "done"}) =>
        \A a \in 0..TotalPoints(waypoints) :
            At(dp', a) # At(dp, a) => (pc = "dp" /\ a = i /\ i' = i + 1)

C16_OrderIndependentWriteOnce == [](OrderIndependent) /\ [][WrittenOnce]_vars

\* the last row of a two-waypoint course is written and its three candidates
\* are pairwise different
C16_Witness ==
    /\ InDpPass /\ ValidRun /\ n = 2 /\ i = 4
    /\ \A x, y \in 0..2 : x # y => CandidateNow(3, x) # CandidateNow(3, y)

(***************************************************************************)
(* C11: solve entered twice on the same object with the same course and    *)
(* parameters, whatever the path vector held, returns the same time and    *)
(* the same path both times.                                               *)
(***************************************************************************)
C11_SecondCallSame ==
    (again /\ Solved /\ ValidRun) =>
        /\ result = first.result
        /\ path = first.path

\* the second call has returned, for a course with two waypoints, both visited
C11_Witness ==
    /\ again /\ Solved /\ ValidRun /\ n = 2
    /\ Len(first.path) = 4

(***************************************************************************)
(* C15: the files solveCase is run on are the input path and the output    *)
(* path given as the first and second command-line argument.               *)
(***************************************************************************)
C15_RunsOnGivenPaths ==
    (pc # "main") => opened = paths

====
